---- MODULE Spec2Model ----
(***************************************************************************)
(* A model of the qdrant-loader MCP server: the search engine              *)
(* (src/search/engine.py), the query processor (src/search/processor.py),  *)
(* the JSON-RPC handler (src/mcp/handler.py, src/mcp/protocol.py) and the  *)
(* stdio loop (src/main.py).                                               *)
(*                                                                         *)
(* Python values whose type varies are records tagged by a field t:        *)
(* [t |-> "None"], [t |-> "str", v |-> <<chars>>], [t |-> "dict", v |-> f].*)
(* A str is a sequence of one-character strings. A dict is a function from *)
(* its keys. Scores are tenths (8 stands for 0.8).                          *)
(***************************************************************************)
EXTENDS Integers, Sequences, FiniteSets, TLC

VARIABLES
    client,         \* SearchEngine.client: "None" or "QdrantClient"
    config,         \* SearchEngine.config: "None" or "QdrantConfig"
    openai_client,  \* SearchEngine.openai_client: "None" or "AsyncOpenAI"
    pc,             \* position of handle_stdio: "start", "loop", "done", "failed"
    lines_read,     \* how many lines handle_stdio has read from stdin
    stdout,         \* the lines written to sys.stdout, oldest first
    initialized,    \* history: whether some call of initialize has returned normally
    suspended,      \* the operation that is suspended at an await, None when there is none
    last            \* the last operation: its arguments, outcome and outbound calls

vars == <<client, config, openai_client, pc, lines_read, stdout, initialized, suspended, last>>

-----------------------------------------------------------------------------
(* Bounds of the model *)

\* longest list of records the vector store hands back in one search
MaxRecords == 2

\* largest limit a caller asks for
MaxLimit == 2

\* most lines the stdio loop reads before the model stops feeding it
MaxLines == 2

\* longest query text process_query is run on
MaxQueryLen == 5

-----------------------------------------------------------------------------
(* Python values *)

None == [t |-> "None"]

Str(s) == [t |-> "str", v |-> s]

Num(n) == [t |-> "int", v |-> n]

Dict(f) == [t |-> "dict", v |-> f]

List(s) == [t |-> "list", v |-> s]

EmptyDict == Dict([k \in {} |-> None])

\* dict.get(key, default)
Get(d, key, default) == IF key \in DOMAIN d.v THEN d.v[key] ELSE default

\* Python truthiness of a value: None, "", {} and [] are falsy
Truthy(x) ==
    CASE x.t = "None" -> FALSE
      [] x.t = "str"  -> x.v # <<>>
      [] x.t = "list" -> x.v # <<>>
      [] x.t = "dict" -> DOMAIN x.v # {}
      [] OTHER        -> TRUE

\* x or y
Or(x, y) == IF Truthy(x) THEN x ELSE y

\* the outcome of a call: a returned value, or a raised exception with str(e) = text
\* (a text is a sequence of string pieces); calls are the outbound calls it made
Return(value, calls) == [outcome |-> "return", value |-> value, text |-> <<>>, calls |-> calls]

Raise(text, calls) == [outcome |-> "raise", value |-> None, text |-> text, calls |-> calls]

\* an outbound call to a collaborator
Call(api, arg) == [api |-> api, arg |-> arg]

\* what a collaborator answers: a value, or a failure with its message
Ok(value) == [t |-> "ok", v |-> value]

Fail(text) == [t |-> "error", v |-> text]

-----------------------------------------------------------------------------
(* SearchEngine: src/search/engine.py *)

\* the engine's fields as one record
Engine == [client |-> client, config |-> config, openai_client |-> openai_client]

\* SearchEngine.__init__
NewEngine == [client |-> "None", config |-> "None", openai_client |-> "None"]

\* where initialize can fail: nowhere (the collection exists, or is created), or in
\* one of the four calls inside its try block
InitializeOutcomes ==
    {"exists", "created", "QdrantClient", "AsyncOpenAI", "get_collections", "create_collection"}

InitializeError ==
    <<"Failed to connect to Qdrant server at ", "url",
      ". Please ensure Qdrant is running and accessible.">>

\* SearchEngine.initialize: config is assigned before the try block, client and
\* openai_client as far as the constructors got; every failure is re-raised as RuntimeError
initialize(eng, how) ==
    LET e1 == [eng EXCEPT !.config = "QdrantConfig"]
        e2 == [e1 EXCEPT !.client = "QdrantClient"]
        e3 == [e2 EXCEPT !.openai_client = "AsyncOpenAI"]
    IN CASE how = "QdrantClient" ->
              [eng |-> e1, res |-> Raise(InitializeError, <<>>)]
         [] how = "AsyncOpenAI" ->
              [eng |-> e2, res |-> Raise(InitializeError, <<>>)]
         [] how = "get_collections" ->
              [eng |-> e3, res |-> Raise(InitializeError, <<Call("get_collections", None)>>)]
         [] how = "create_collection" ->
              [eng |-> e3,
               res |-> Raise(InitializeError,
                             <<Call("get_collections", None), Call("create_collection", None)>>)]
         [] how = "created" ->
              [eng |-> e3,
               res |-> Return(None, <<Call("get_collections", None),
                                      Call("create_collection", None)>>)]
         [] OTHER ->
              [eng |-> e3, res |-> Return(None, <<Call("get_collections", None)>>)]

\* cleanup as it would be if it closed the client and kept the reference to it
cleanup_keeping_client(eng) ==
    IF eng.client # "None"
    THEN [eng |-> eng, res |-> Return(None, <<Call("close", None)>>)]
    ELSE [eng |-> eng, res |-> Return(None, <<>>)]

\* SearchEngine.cleanup
cleanup(eng) ==
    IF eng.client # "None"
    THEN [eng |-> [eng EXCEPT !.client = "None"], res |-> Return(None, <<Call("close", None)>>)]
    ELSE [eng |-> eng, res |-> Return(None, <<>>)]

\* a point the vector store hands back (qdrant ScoredPoint): score and payload are
\* what search reads; id is the document the point is a chunk of
ScoredPoint(id, score, payload) == [id |-> id, score |-> score, payload |-> payload]

\* a text that is only ever passed along
Text(s) == Str(<<s>>)

\* the payload qdrant-loader stores with a point
Payload(source_type, title) ==
    Dict([content |-> Text("content"), source_type |-> Text(source_type),
          metadata |-> Dict([title |-> Text(title), url |-> Text("http://url")])])

\* SearchResult(...): pydantic validates the fields, score: float and text,
\* source_type, source_title: str are required; the others are Optional[str]
SearchResultValid(r) ==
    /\ r.score.t \in {"int", "float"}
    /\ r.text.t = "str"
    /\ r.source_type.t = "str"
    /\ r.source_title.t = "str"
    /\ r.source_url.t \in {"str", "None"}
    /\ r.file_path.t \in {"str", "None"}
    /\ r.repo_name.t \in {"str", "None"}

\* lines 143-153 as they would be if the payload's fields were read without defaults
SearchResult_without_defaults(result) ==
    LET payload == Or(result.payload, EmptyDict)
        metadata == Or(Get(payload, "metadata", EmptyDict), EmptyDict)
    IN [score |-> result.score,
        text |-> Get(payload, "content", None),
        source_type |-> Get(payload, "source_type", None),
        source_title |-> Get(metadata, "title", None),
        source_url |-> Get(metadata, "url", None),
        file_path |-> Get(metadata, "file_path", None),
        repo_name |-> Get(metadata, "repository_name", None)]

\* the body of the loop of search, lines 143-153, for one point; the caller has
\* checked Convertible(result)
SearchResult(result) ==
    LET payload == Or(result.payload, EmptyDict)
        metadata == Or(Get(payload, "metadata", EmptyDict), EmptyDict)
    IN [score |-> result.score,
        text |-> Get(payload, "content", Text("")),
        source_type |-> Get(payload, "source_type", Text("unknown")),
        source_title |-> Get(metadata, "title", Text("")),
        source_url |-> Get(metadata, "url", None),
        file_path |-> Get(metadata, "file_path", None),
        repo_name |-> Get(metadata, "repository_name", None)]

\* whether lines 143-153 run without an exception: payload.get and metadata.get
\* need dicts, and the SearchResult must validate
Convertible(result) ==
    /\ Or(result.payload, EmptyDict).t = "dict"
    /\ Or(Get(Or(result.payload, EmptyDict), "metadata", EmptyDict), EmptyDict).t = "dict"
    /\ SearchResultValid(SearchResult(result))

\* the points whose conversion succeeds, in the order of the backend's list
RECURSIVE Processable(_)
Processable(results) ==
    IF results = <<>> THEN <<>>
    ELSE (IF Convertible(Head(results)) THEN <<Head(results)>> ELSE <<>>)
         \o Processable(Tail(results))

\* processed_results as it would be if line 154 inserted each result at the front
\* of the list
processed_results_prepending(results) ==
    [i \in 1..Len(Processable(results)) |->
        SearchResult(Processable(results)[Len(Processable(results)) + 1 - i])]

\* processed_results of search, lines 140-161: a point that raises is logged and skipped
processed_results(results) ==
    [i \in 1..Len(Processable(results)) |-> SearchResult(Processable(results)[i])]

\* the arguments search passes to client.search, lines 118-131: no filter among them
search_params(limit) == [limit |-> limit, score_threshold |-> 3, hnsw_ef |-> 128]

\* search as it would be if a failure of the vector store were logged and answered
\* with an empty list
search_swallowing_failure(eng, query, source_types, limit, embedding, store) ==
    LET embed_call == Call("embeddings.create", query)
        search_call == Call("client.search", search_params(limit))
    IN IF eng.client = "None" \/ eng.config = "None"
         THEN Raise(<<"Search engine not initialized">>, <<>>)
       ELSE IF eng.openai_client = "None"
         THEN Raise(<<"OpenAI client not initialized">>, <<>>)
       ELSE IF embedding.t = "error"
         THEN Raise(embedding.v, <<embed_call>>)
       ELSE IF store.t = "error"
         THEN Return(List(<<>>), <<embed_call, search_call>>)
       ELSE Return(List(processed_results(store.v)), <<embed_call, search_call>>)

\* search as it would be if line 135 read results[0].score without `if results`
search_unguarded_first_score(eng, query, source_types, limit, embedding, store) ==
    LET embed_call == Call("embeddings.create", query)
        search_call == Call("client.search", search_params(limit))
    IN IF eng.client = "None" \/ eng.config = "None"
         THEN Raise(<<"Search engine not initialized">>, <<>>)
       ELSE IF eng.openai_client = "None"
         THEN Raise(<<"OpenAI client not initialized">>, <<>>)
       ELSE IF embedding.t = "error"
         THEN Raise(embedding.v, <<embed_call>>)
       ELSE IF store.t = "error"
         THEN Raise(store.v, <<embed_call, search_call>>)
       ELSE IF store.v = <<>>
         THEN Raise(<<"list index out of range">>, <<embed_call, search_call>>)
       ELSE Return(List(processed_results(store.v)), <<embed_call, search_call>>)

\* search as it would be without the try block of lines 142-161 around the
\* conversion of one point
search_failing_on_bad_record(eng, query, source_types, limit, embedding, store) ==
    LET embed_call == Call("embeddings.create", query)
        search_call == Call("client.search", search_params(limit))
    IN IF eng.client = "None" \/ eng.config = "None"
         THEN Raise(<<"Search engine not initialized">>, <<>>)
       ELSE IF eng.openai_client = "None"
         THEN Raise(<<"OpenAI client not initialized">>, <<>>)
       ELSE IF embedding.t = "error"
         THEN Raise(embedding.v, <<embed_call>>)
       ELSE IF store.t = "error"
         THEN Raise(store.v, <<embed_call, search_call>>)
       ELSE IF \E i \in 1..Len(store.v) : ~Convertible(store.v[i])
         THEN Raise(<<"'str' object has no attribute 'get'">>, <<embed_call, search_call>>)
       ELSE Return(List(processed_results(store.v)), <<embed_call, search_call>>)

\* search as it would be if the embedding request and the vector search were
\* started together and then awaited
search_concurrently(eng, query, source_types, limit, embedding, store) ==
    LET embed_call == Call("embeddings.create", query)
        search_call == Call("client.search", search_params(limit))
    IN IF eng.client = "None" \/ eng.config = "None"
         THEN Raise(<<"Search engine not initialized">>, <<>>)
       ELSE IF eng.openai_client = "None"
         THEN Raise(<<"OpenAI client not initialized">>, <<>>)
       ELSE IF embedding.t = "error"
         THEN Raise(embedding.v, <<embed_call, search_call>>)
       ELSE IF store.t = "error"
         THEN Raise(store.v, <<embed_call, search_call>>)
       ELSE Return(List(processed_results(store.v)), <<embed_call, search_call>>)

\* SearchEngine.search with _get_embedding. embedding and store are the answers of
\* the embedding provider and of the vector store, should they be asked
search(eng, query, source_types, limit, embedding, store) ==
    LET embed_call == Call("embeddings.create", query)
        search_call == Call("client.search", search_params(limit))
    IN IF eng.client = "None" \/ eng.config = "None"
         THEN Raise(<<"Search engine not initialized">>, <<>>)
       ELSE IF eng.openai_client = "None"
         THEN Raise(<<"OpenAI client not initialized">>, <<>>)
       ELSE IF embedding.t = "error"
         THEN Raise(embedding.v, <<embed_call>>)
       ELSE IF store.t = "error"
         THEN Raise(store.v, <<embed_call, search_call>>)
       ELSE Return(List(processed_results(store.v)), <<embed_call, search_call>>)


\* search from the point where `await self._get_embedding(query)` gives control
\* back, lines 114-170. eng is the engine as it is by then: line 128 reads
\* self.client again, and calling search on None is an AttributeError, which the
\* except clause of line 168 logs and re-raises
search_resumed(eng, query, source_types, limit, embedding, store) ==
    LET embed_call == Call("embeddings.create", query)
        search_call == Call("client.search", search_params(limit))
    IN IF embedding.t = "error"
         THEN Raise(embedding.v, <<embed_call>>)
       ELSE IF eng.client = "None"
         THEN Raise(<<"'NoneType' object has no attribute 'search'">>, <<embed_call>>)
       ELSE IF store.t = "error"
         THEN Raise(store.v, <<embed_call, search_call>>)
       ELSE Return(List(processed_results(store.v)), <<embed_call, search_call>>)

-----------------------------------------------------------------------------
(* QueryProcessor: src/search/processor.py *)

\* the characters \s matches and str.strip removes
Whitespace == {" ", "\t", "\n"}

UpperCase ==
    <<"A", "B", "C", "D", "E", "F", "G", "H", "I", "J", "K", "L", "M",
      "N", "O", "P", "Q", "R", "S", "T", "U", "V", "W", "X", "Y", "Z">>

LowerCase ==
    <<"a", "b", "c", "d", "e", "f", "g", "h", "i", "j", "k", "l", "m",
      "n", "o", "p", "q", "r", "s", "t", "u", "v", "w", "x", "y", "z">>

\* str.lower, on a sequence of characters
LowerChar(c) ==
    IF \E i \in 1..26 : UpperCase[i] = c
    THEN LowerCase[CHOOSE i \in 1..26 : UpperCase[i] = c]
    ELSE c

Lower(s) == [i \in 1..Len(s) |-> LowerChar(s[i])]

\* str.strip
RECURSIVE LStrip(_)
LStrip(s) == IF s # <<>> /\ Head(s) \in Whitespace THEN LStrip(Tail(s)) ELSE s

RECURSIVE RStrip(_)
RStrip(s) ==
    IF s # <<>> /\ s[Len(s)] \in Whitespace THEN RStrip(SubSeq(s, 1, Len(s) - 1)) ELSE s

Strip(s) == RStrip(LStrip(s))

\* re.sub(r"\s+", " ", s): every maximal run of whitespace becomes one space
RECURSIVE CollapseWhitespace(_)
CollapseWhitespace(s) ==
    IF s = <<>> THEN <<>>
    ELSE IF Head(s) \in Whitespace
         THEN <<" ">> \o CollapseWhitespace(LStrip(s))
         ELSE <<Head(s)>> \o CollapseWhitespace(Tail(s))

\* re.sub(r"\s\s", " ", s): every pair of whitespace characters becomes one space
RECURSIVE CollapsePairs(_)
CollapsePairs(s) ==
    IF s = <<>> THEN <<>>
    ELSE IF Len(s) >= 2 /\ s[1] \in Whitespace /\ s[2] \in Whitespace
         THEN <<" ">> \o CollapsePairs(SubSeq(s, 3, Len(s)))
         ELSE <<Head(s)>> \o CollapsePairs(Tail(s))

\* _clean_query as it would be with the pattern r"\s\s" in place of r"\s+"
clean_query_pairs(query) == CollapsePairs(Strip(query))

\* _clean_query as it would be if it also lower-cased the query
clean_query_lowercasing(query) == Lower(CollapseWhitespace(Strip(query)))

\* QueryProcessor._clean_query, for a str
clean_query(query) == CollapseWhitespace(Strip(query))

\* keyword in query_lower
IsSubstring(w, s) ==
    \E i \in 1..(Len(s) - Len(w) + 1) : SubSeq(s, i, i + Len(w) - 1) = w

\* source_keywords of _extract_source_type, in the order of the dict
source_keywords ==
    <<[source_type |-> "git",
       keywords |-> <<<<"g", "i", "t">>,
                      <<"c", "o", "d", "e">>,
                      <<"r", "e", "p", "o", "s", "i", "t", "o", "r", "y">>,
                      <<"r", "e", "p", "o">>>>],
      [source_type |-> "confluence",
       keywords |-> <<<<"c", "o", "n", "f", "l", "u", "e", "n", "c", "e">>,
                      <<"d", "o", "c">>,
                      <<"d", "o", "c", "u", "m", "e", "n", "t", "a", "t", "i", "o", "n">>,
                      <<"w", "i", "k", "i">>>>],
      [source_type |-> "jira",
       keywords |-> <<<<"j", "i", "r", "a">>,
                      <<"i", "s", "s", "u", "e">>,
                      <<"t", "i", "c", "k", "e", "t">>,
                      <<"b", "u", "g">>>>]>>

\* QueryProcessor._extract_source_type: the first source type one of whose keywords
\* occurs in the lower-cased query; the intent is not consulted
extract_source_type(query, intent) ==
    LET hit(k) == \E j \in 1..Len(source_keywords[k].keywords) :
                      IsSubstring(source_keywords[k].keywords[j], Lower(query))
    IN IF \E k \in 1..Len(source_keywords) : hit(k)
       THEN Text(source_keywords[CHOOSE k \in 1..Len(source_keywords) :
                     hit(k) /\ \A m \in 1..(k - 1) : ~hit(m)].source_type)
       ELSE None

\* a chat completion: its choices are messages, a message is None or has a content
Completion(choices) == Ok(List(choices))

Message(content) == Dict([content |-> content])

General == <<"g", "e", "n", "e", "r", "a", "l">>

\* QueryProcessor._infer_intent: classifier is the answer of the chat completion;
\* every exception ends in "general"
infer_intent(query, classifier) ==
    IF classifier.t = "error" THEN General
    ELSE IF classifier.v.v = <<>> \/ ~Truthy(classifier.v.v[1]) THEN General
    ELSE IF ~Truthy(classifier.v.v[1].v["content"]) THEN General
    ELSE Lower(Strip(classifier.v.v[1].v["content"].v))

\* process_query as it would be if _infer_intent let a failure of the classifier
\* call through instead of returning "general"
process_query_strict(query, classifier) ==
    IF query.t # "str"
    THEN Raise(<<"Query processing failed: ", "'", query.t,
                 "' object has no attribute 'strip'">>, <<>>)
    ELSE IF classifier.t = "error"
    THEN Raise(<<"Query processing failed: ">> \o classifier.v,
               <<Call("chat.completions.create", Str(clean_query(query.v)))>>)
    ELSE LET cleaned_query == clean_query(query.v)
             intent == infer_intent(cleaned_query, classifier)
         IN Return(Dict([query |-> Str(cleaned_query),
                         intent |-> Str(intent),
                         source_type |-> extract_source_type(cleaned_query, intent),
                         processed |-> [t |-> "bool", v |-> TRUE]]),
                   <<Call("chat.completions.create", Str(cleaned_query))>>)

\* QueryProcessor.process_query: any exception of the three steps is re-raised as
\* RuntimeError; only _clean_query can raise, when query is no str
process_query(query, classifier) ==
    IF query.t # "str"
    THEN Raise(<<"Query processing failed: ", "'", query.t,
                 "' object has no attribute 'strip'">>, <<>>)
    ELSE LET cleaned_query == clean_query(query.v)
             intent == infer_intent(cleaned_query, classifier)
         IN Return(Dict([query |-> Str(cleaned_query),
                         intent |-> Str(intent),
                         source_type |-> extract_source_type(cleaned_query, intent),
                         processed |-> [t |-> "bool", v |-> TRUE]]),
                   <<Call("chat.completions.create", Str(cleaned_query))>>)

-----------------------------------------------------------------------------
(* MCPProtocol and MCPHandler: src/mcp/protocol.py, src/mcp/handler.py *)

\* a str with the given text
IsStr(x, s) == x.t = "str" /\ x.v = <<s>>

\* validate_request as it would be if method were not among its required_fields
validate_request_without_method(request) ==
    \A field \in {"jsonrpc", "params", "id"} : field \in DOMAIN request.v

\* MCPProtocol.validate_request, for a dict
validate_request(request) ==
    \A field \in {"jsonrpc", "method", "params", "id"} : field \in DOMAIN request.v

\* a JSON-RPC error object
Error(code, message, data) ==
    Dict([code |-> code, message |-> message, data |-> data])

\* create_response as it would be if it set both members whatever its arguments
create_response_with_both(request_id, result, error) ==
    Dict(("jsonrpc" :> Text("2.0")) @@ ("id" :> request_id)
         @@ ("result" :> result) @@ ("error" :> error))

\* MCPProtocol.create_response
create_response(request_id, result, error) ==
    IF error.t # "None"
    THEN Dict(("jsonrpc" :> Text("2.0")) @@ ("id" :> request_id) @@ ("error" :> error))
    ELSE Dict(("jsonrpc" :> Text("2.0")) @@ ("id" :> request_id) @@ ("result" :> result))

InvalidRequest(request_id) ==
    Dict(("jsonrpc" :> Text("2.0")) @@ ("id" :> request_id)
         @@ ("error" :> Error(-32600, "Invalid Request",
                              <<"The request is not a valid JSON-RPC 2.0 request">>)))

\* what handle_request gives back: its response, the method handler it dispatched
\* to ("" when none), the outbound calls made on the way, and the calls of
\* search_engine.search with their arguments
Handled(response, handler, calls) ==
    [response |-> response, handler |-> handler, calls |-> calls, engine |-> <<>>]

\* the same, after search_engine.search was called with the given arguments
WithEngineCall(handled, query, source_types, limit) ==
    [handled EXCEPT !.engine = <<Call("search_engine.search",
                                      [query |-> query, source_types |-> source_types,
                                       limit |-> limit])>>]

\* MCPHandler._handle_initialize
handle_initialize(request_id, params) ==
    create_response(request_id,
        Dict([protocolVersion |-> Text("2024-11-05"),
              serverInfo |-> Dict([name |-> Text("Qdrant Loader MCP Server"),
                                   version |-> Text("1.0.0")])]),
        None)

\* self.protocol.mark_initialized(), line 82 of handler.py: MCPProtocol defines no
\* such method, so the call raises AttributeError
mark_initialized ==
    Raise(<<"'MCPProtocol' object has no attribute 'mark_initialized'">>, <<>>)

\* str(x) inside an f-string: a str is itself, an int its decimal; the other
\* values only ever stand for themselves
Format(x) ==
    IF x.t = "str" THEN x.v
    ELSE IF x.t = "int" THEN <<ToString(x.v)>>
    ELSE <<x.t>>

\* MCPHandler._handle_list_offerings
handle_list_offerings(request_id, params, method) ==
    IF IsStr(method, "tools/list")
    THEN create_response(request_id, Dict([tools |-> List(<<Text("search")>>)]), None)
    ELSE create_response(request_id,
             Dict([offerings |-> List(<<Dict([id |-> Text("qdrant-loader"),
                                              tools |-> List(<<Text("search")>>)])>>)]),
             None)

\* the dict _handle_search makes of one SearchResult, lines 280-288
ResultDict(result) == Dict(result)

\* _handle_search as it would be if its except clause answered with an empty result
handle_search_query_empty_on_error(eng, request_id, params, classifier, embedding, store) ==
    LET query == params.v["query"]
        source_types == Get(params, "source_types", List(<<>>))
        limit == Get(params, "limit", Num(10))
        processed_query == process_query(query, classifier)
        results == search(eng, processed_query.value.v["query"], source_types, limit,
                          embedding, store)
    IN IF processed_query.outcome = "raise"
       THEN Handled(create_response(request_id, Dict([results |-> List(<<>>)]), None),
                    "_handle_search", processed_query.calls)
       ELSE WithEngineCall(
              IF results.outcome = "raise"
              THEN Handled(create_response(request_id, Dict([results |-> List(<<>>)]), None),
                           "_handle_search", processed_query.calls \o results.calls)
              ELSE Handled(create_response(request_id,
                               Dict([results |->
                                       List([i \in 1..Len(results.value.v) |->
                                                ResultDict(results.value.v[i])])]),
                               None),
                           "_handle_search", processed_query.calls \o results.calls),
              processed_query.value.v["query"], source_types, limit)

\* _handle_search as it would be if the source type process_query derives replaced
\* the source_types of the request
handle_search_query_using_hint(eng, request_id, params, classifier, embedding, store) ==
    LET query == params.v["query"]
        limit == Get(params, "limit", Num(10))
        processed_query == process_query(query, classifier)
        source_types == IF processed_query.value.v["source_type"] # None
                        THEN List(<<processed_query.value.v["source_type"]>>)
                        ELSE Get(params, "source_types", List(<<>>))
        results == search(eng, processed_query.value.v["query"], source_types, limit,
                          embedding, store)
    IN IF processed_query.outcome = "raise"
       THEN Handled(create_response(request_id, None,
                        Error(-32603, "Internal error", processed_query.text)),
                    "_handle_search", processed_query.calls)
       ELSE WithEngineCall(
              IF results.outcome = "raise"
              THEN Handled(create_response(request_id, None,
                               Error(-32603, "Internal error", results.text)),
                           "_handle_search", processed_query.calls \o results.calls)
              ELSE Handled(create_response(request_id,
                               Dict([results |->
                                       List([i \in 1..Len(results.value.v) |->
                                                ResultDict(results.value.v[i])])]),
                               None),
                           "_handle_search", processed_query.calls \o results.calls),
              processed_query.value.v["query"], source_types, limit)

\* MCPHandler._handle_search for params that are a dict with a query
handle_search_query(eng, request_id, params, classifier, embedding, store) ==
    LET query == params.v["query"]
        source_types == Get(params, "source_types", List(<<>>))
        limit == Get(params, "limit", Num(10))
        processed_query == process_query(query, classifier)
        results == search(eng, processed_query.value.v["query"], source_types, limit,
                          embedding, store)
    IN IF processed_query.outcome = "raise"
       THEN Handled(create_response(request_id, None,
                        Error(-32603, "Internal error", processed_query.text)),
                    "_handle_search", processed_query.calls)
       ELSE WithEngineCall(
              IF results.outcome = "raise"
              THEN Handled(create_response(request_id, None,
                               Error(-32603, "Internal error", results.text)),
                           "_handle_search", processed_query.calls \o results.calls)
              ELSE Handled(create_response(request_id,
                               Dict([results |->
                                       List([i \in 1..Len(results.value.v) |->
                                                ResultDict(results.value.v[i])])]),
                               None),
                           "_handle_search", processed_query.calls \o results.calls),
              processed_query.value.v["query"], source_types, limit)

\* _handle_search as it would be without the check of lines 236-245: params["query"]
\* raises KeyError('query') for a dict without it, and handle_request answers -32603
handle_search_unchecked(eng, request_id, params, classifier, embedding, store) ==
    IF params.t = "dict" /\ "query" \in DOMAIN params.v
    THEN handle_search_query(eng, request_id, params, classifier, embedding, store)
    ELSE Handled(create_response(request_id, None,
                     Error(-32603, "Internal error", <<"'query'">>)),
                 "_handle_search", <<>>)

\* _handle_search as it is seen by the caller of handle_request if handle_request
\* had no except clause (lines 115-119): the TypeError goes up to the caller
handle_search_uncaught(eng, request_id, params, classifier, embedding, store) ==
    CASE params.t = "dict" /\ "query" \notin DOMAIN params.v ->
           Handled(create_response(request_id, None,
                       Error(-32602, "Invalid params",
                             <<"Missing required parameter: query">>)),
                   "_handle_search", <<>>)
      [] params.t = "list" /\ \A i \in 1..Len(params.v) : ~IsStr(params.v[i], "query") ->
           Handled(create_response(request_id, None,
                       Error(-32602, "Invalid params",
                             <<"Missing required parameter: query">>)),
                   "_handle_search", <<>>)
      [] params.t = "dict" ->
           handle_search_query(eng, request_id, params, classifier, embedding, store)
      [] params.t = "list" ->
           Handled([t |-> "exception",
                    v |-> <<"list indices must be integers or slices, not str">>],
                   "_handle_search", <<>>)
      [] OTHER ->
           Handled([t |-> "exception",
                    v |-> <<"argument of type '", params.t, "' is not iterable">>],
                   "_handle_search", <<>>)

\* MCPHandler._handle_search. `"query" not in params` and params["query"] raise
\* TypeError unless params is a dict (or a list without "query"); the exception
\* leaves _handle_search and is caught in handle_request, lines 115-119
handle_search(eng, request_id, params, classifier, embedding, store) ==
    CASE params.t = "dict" /\ "query" \notin DOMAIN params.v ->
           Handled(create_response(request_id, None,
                       Error(-32602, "Invalid params",
                             <<"Missing required parameter: query">>)),
                   "_handle_search", <<>>)
      [] params.t = "list" /\ \A i \in 1..Len(params.v) : ~IsStr(params.v[i], "query") ->
           Handled(create_response(request_id, None,
                       Error(-32602, "Invalid params",
                             <<"Missing required parameter: query">>)),
                   "_handle_search", <<>>)
      [] params.t = "dict" ->
           handle_search_query(eng, request_id, params, classifier, embedding, store)
      [] params.t = "list" ->
           Handled(create_response(request_id, None,
                       Error(-32603, "Internal error",
                             <<"list indices must be integers or slices, not str">>)),
                   "_handle_search", <<>>)
      [] OTHER ->
           Handled(create_response(request_id, None,
                       Error(-32603, "Internal error",
                             <<"argument of type '", params.t, "' is not iterable">>)),
                   "_handle_search", <<>>)

\* handle_request as it would be if its else branch, lines 105-114, treated an
\* unknown method as a search
handle_request_unknown_as_search(eng, request, classifier, embedding, store) ==
    IF request.t # "dict"
    THEN Handled(InvalidRequest(None), "", <<>>)
    ELSE IF ~validate_request(request)
    THEN Handled(InvalidRequest(
                     IF Get(request, "id", None).t \in {"str", "int"}
                     THEN Get(request, "id", None) ELSE None),
                 "", <<>>)
    ELSE LET method == Get(request, "method", None)
             params == Get(request, "params", EmptyDict)
             request_id == Get(request, "id", None)
         IN IF request_id.t = "None"
            THEN Handled(EmptyDict, "", <<>>)
            ELSE IF IsStr(method, "initialize")
            THEN IF mark_initialized.outcome = "raise"
                 THEN Handled(create_response(request_id, None,
                                  Error(-32603, "Internal error", mark_initialized.text)),
                              "_handle_initialize", <<>>)
                 ELSE Handled(handle_initialize(request_id, params),
                              "_handle_initialize", <<>>)
            ELSE IF IsStr(method, "listOfferings") \/ IsStr(method, "tools/list")
            THEN Handled(handle_list_offerings(request_id, params, method),
                         "_handle_list_offerings", <<>>)
            ELSE handle_search(eng, request_id, params, classifier, embedding, store)

\* MCPHandler.handle_request
handle_request(eng, request, classifier, embedding, store) ==
    IF request.t # "dict"
    THEN Handled(InvalidRequest(None), "", <<>>)
    ELSE IF ~validate_request(request)
    THEN Handled(InvalidRequest(
                     IF Get(request, "id", None).t \in {"str", "int"}
                     THEN Get(request, "id", None) ELSE None),
                 "", <<>>)
    ELSE LET method == Get(request, "method", None)
             params == Get(request, "params", EmptyDict)
             request_id == Get(request, "id", None)
         IN IF request_id.t = "None"
            THEN Handled(EmptyDict, "", <<>>)
            ELSE IF IsStr(method, "initialize")
            THEN IF mark_initialized.outcome = "raise"
                 THEN Handled(create_response(request_id, None,
                                  Error(-32603, "Internal error", mark_initialized.text)),
                              "_handle_initialize", <<>>)
                 ELSE Handled(handle_initialize(request_id, params),
                              "_handle_initialize", <<>>)
            ELSE IF IsStr(method, "listOfferings") \/ IsStr(method, "tools/list")
            THEN Handled(handle_list_offerings(request_id, params, method),
                         "_handle_list_offerings", <<>>)
            ELSE IF IsStr(method, "search")
            THEN handle_search(eng, request_id, params, classifier, embedding, store)
            ELSE Handled(create_response(request_id, None,
                             Error(-32601, "Method not found",
                                   <<"Method '">> \o Format(method) \o <<"' not found">>)),
                         "", <<>>)

-----------------------------------------------------------------------------
(* handle_stdio: src/main.py *)

\* a line of stdin: text json.loads rejects, or the JSON value it parses to
BadJson == [t |-> "bad"]

Json(value) == [t |-> "json", v |-> value]

StdioError(request_id, code, message, data) ==
    Dict(("jsonrpc" :> Text("2.0")) @@ ("id" :> request_id)
         @@ ("error" :> Error(code, message, data)))

\* the turn as it would be if a line json.loads rejects were only logged, as the
\* outer except clause of lines 269-272 does
stdio_turn_silent_on_bad_json(eng, line, classifier, embedding, store) ==
    LET request == line.v
        handled == handle_request(eng, request, classifier, embedding, store)
        none == Handled(EmptyDict, "", <<>>)
    IN IF line.t = "bad"
       THEN [written |-> <<>>, called |-> FALSE, handled |-> none]
       ELSE IF request.t # "dict"
       THEN [written |-> <<StdioError(None, -32600, "Invalid Request",
                                      <<"Request must be a JSON object">>)>>,
             called |-> FALSE, handled |-> none]
       ELSE IF "jsonrpc" \notin DOMAIN request.v \/ ~IsStr(request.v["jsonrpc"], "2.0")
       THEN [written |-> <<StdioError(Get(request, "id", None), -32600, "Invalid Request",
                                      <<"Invalid JSON-RPC version">>)>>,
             called |-> FALSE, handled |-> none]
       ELSE [written |-> IF Truthy(handled.response) THEN <<handled.response>> ELSE <<>>,
             called |-> TRUE, handled |-> handled]

\* the turn as it would be without the `continue` of line 223: after the error for
\* the JSON-RPC version, the request goes on to handle_request
stdio_turn_without_continue(eng, line, classifier, embedding, store) ==
    LET request == line.v
        handled == handle_request(eng, request, classifier, embedding, store)
        none == Handled(EmptyDict, "", <<>>)
    IN IF line.t = "bad"
       THEN [written |-> <<StdioError(None, -32700, "Parse error",
                                      <<"Invalid JSON received: ", "JSONDecodeError">>)>>,
             called |-> FALSE, handled |-> none]
       ELSE IF request.t # "dict"
       THEN [written |-> <<StdioError(None, -32600, "Invalid Request",
                                      <<"Request must be a JSON object">>)>>,
             called |-> FALSE, handled |-> none]
       ELSE IF "jsonrpc" \notin DOMAIN request.v \/ ~IsStr(request.v["jsonrpc"], "2.0")
       THEN [written |-> <<StdioError(Get(request, "id", None), -32600, "Invalid Request",
                                      <<"Invalid JSON-RPC version">>)>>
                         \o (IF Truthy(handled.response) THEN <<handled.response>> ELSE <<>>),
             called |-> TRUE, handled |-> handled]
       ELSE [written |-> IF Truthy(handled.response) THEN <<handled.response>> ELSE <<>>,
             called |-> TRUE, handled |-> handled]

\* the turn as it would be if line 232 wrote only the responses that have a result
stdio_turn_dropping_errors(eng, line, classifier, embedding, store) ==
    LET request == line.v
        handled == handle_request(eng, request, classifier, embedding, store)
        none == Handled(EmptyDict, "", <<>>)
    IN IF line.t = "bad"
       THEN [written |-> <<StdioError(None, -32700, "Parse error",
                                      <<"Invalid JSON received: ", "JSONDecodeError">>)>>,
             called |-> FALSE, handled |-> none]
       ELSE IF request.t # "dict"
       THEN [written |-> <<StdioError(None, -32600, "Invalid Request",
                                      <<"Request must be a JSON object">>)>>,
             called |-> FALSE, handled |-> none]
       ELSE IF "jsonrpc" \notin DOMAIN request.v \/ ~IsStr(request.v["jsonrpc"], "2.0")
       THEN [written |-> <<StdioError(Get(request, "id", None), -32600, "Invalid Request",
                                      <<"Invalid JSON-RPC version">>)>>,
             called |-> FALSE, handled |-> none]
       ELSE [written |-> IF Truthy(handled.response) /\ "result" \in DOMAIN handled.response.v
                         THEN <<handled.response>> ELSE <<>>,
             called |-> TRUE, handled |-> handled]

\* one turn of the while loop of handle_stdio, lines 181-263, for a line that was
\* read: the lines it writes to stdout and what handle_request did, if it was called
stdio_turn(eng, line, classifier, embedding, store) ==
    LET request == line.v
        handled == handle_request(eng, request, classifier, embedding, store)
        none == Handled(EmptyDict, "", <<>>)
    IN IF line.t = "bad"
       THEN [written |-> <<StdioError(None, -32700, "Parse error",
                                      <<"Invalid JSON received: ", "JSONDecodeError">>)>>,
             called |-> FALSE, handled |-> none]
       ELSE IF request.t # "dict"
       THEN [written |-> <<StdioError(None, -32600, "Invalid Request",
                                      <<"Request must be a JSON object">>)>>,
             called |-> FALSE, handled |-> none]
       ELSE IF "jsonrpc" \notin DOMAIN request.v \/ ~IsStr(request.v["jsonrpc"], "2.0")
       THEN [written |-> <<StdioError(Get(request, "id", None), -32600, "Invalid Request",
                                      <<"Invalid JSON-RPC version">>)>>,
             called |-> FALSE, handled |-> none]
       ELSE [written |-> IF Truthy(handled.response) THEN <<handled.response>> ELSE <<>>,
             called |-> TRUE, handled |-> handled]

\* the awaits at which a turn of the loop can be cancelled: reading the line, the
\* classifier call of _infer_intent and the embedding call of _get_embedding.
\* client.search, engine.py:128, is called without await: the event loop does not run
\* during it, and no CancelledError can be delivered
AwaitPoints == {"readline", "chat.completions.create", "embeddings.create"}

\* `except Exception` as it would be if CancelledError derived from Exception
ExceptionCatchesAll(exception) == TRUE

\* whether a clause `except Exception` catches the exception: asyncio.CancelledError
\* derives from BaseException, every other exception of the model from Exception
ExceptionCatches(exception) == exception # "CancelledError"

\* the calls up to the first call of api, which is the one in flight
RECURSIVE UpTo(_, _)
UpTo(calls, api) ==
    IF calls = <<>> THEN <<>>
    ELSE IF Head(calls).api = api THEN <<Head(calls)>>
    ELSE <<Head(calls)>> \o UpTo(Tail(calls), api)

\* a turn that ended when CancelledError left handle_request: nothing is written,
\* and the calls made are those up to the one in flight at the await `at`
InFlight(turn, at) ==
    [written |-> <<>>, called |-> TRUE,
     handled |-> [turn.handled EXCEPT !.response = EmptyDict, !.calls = UpTo(@, at),
                                      !.engine = <<>>],
     stop |-> TRUE]

\* a turn that went on after a clause `except Exception` caught CancelledError
Swallowed(turn) ==
    [written |-> turn.written, called |-> TRUE, handled |-> turn.handled, stop |-> FALSE]

\* one turn of the loop during which the task is cancelled at the await `at`.
\* CancelledError is raised there and passes the clauses `except Exception` of
\* processor.py:94 and 44, engine.py:86 and 168, handler.py:296 and 115 and
\* main.py:250, to end the loop at main.py:265-268 (at 176-179 for readline); stop
\* tells whether the loop ended. A clause that caught it would turn it into the
\* failure of the call in flight, with str(e) = ""
stdio_turn_cancelled(eng, line, classifier, embedding, store, at) ==
    IF at = "readline"
    THEN [written |-> <<>>, called |-> FALSE, handled |-> Handled(EmptyDict, "", <<>>),
          stop |-> TRUE]
    ELSE IF ExceptionCatches("CancelledError")
    THEN Swallowed(stdio_turn(eng, line,
                              IF at = "chat.completions.create"
                              THEN Fail(<<>>) ELSE classifier,
                              IF at = "embeddings.create" THEN Fail(<<>>) ELSE embedding,
                              store))
    ELSE InFlight(stdio_turn(eng, line, classifier, embedding, store), at)

-----------------------------------------------------------------------------
(* The inputs the operations are run on *)

\* all sequences over S of length at most n
SeqsUpTo(S, n) == UNION {[1..k -> S] : k \in 0..n}

\* points of the collection: two chunks of document d1, a chunk of d2 of another
\* source type and without metadata, and two points of d3: one without payload, one
\* whose metadata is no dict (its conversion raises)
Points ==
    { ScoredPoint("d1", Num(8), Payload("git", "T1")),
      ScoredPoint("d1", Num(5), Payload("git", "T1")),
      ScoredPoint("d2", Num(5), Dict([content |-> Text("content"),
                                      source_type |-> Text("confluence")])),
      ScoredPoint("d3", Num(8), None),
      ScoredPoint("d3", Num(8), Dict([content |-> Text("content"),
                                      metadata |-> Text("not a dict")])) }

\* what the vector store answers to client.search: it fails, or hands back a list
StoreAnswers ==
    {Fail(<<"Qdrant unavailable">>)} \cup {Ok(l) : l \in SeqsUpTo(Points, MaxRecords)}

\* the answers with at most one point
ShortStoreAnswers ==
    {Fail(<<"Qdrant unavailable">>), Ok(<<>>)} \cup {Ok(<<p>>) : p \in Points}

\* what the embedding provider answers to embeddings.create
EmbeddingAnswers == {Ok(List(<<>>)), Fail(<<"OpenAI unavailable">>)}

\* what the classifier answers to chat.completions.create
ClassifierAnswers ==
    { Fail(<<"classifier timeout">>),
      Completion(<<>>),
      Completion(<<None>>),
      Completion(<<Message(None)>>),
      Completion(<<Message(Str(<<>>))>>),
      Completion(<<Message(Str(<<" ", "C", "o", "d", "e", "\n">>))>>),
      Completion(<<Message(Str(<<" ", "\t">>))>>),
      Completion(<<Message(Str(<<"b", "u", "g", "s">>))>>) }

\* a classifier, an embedding provider and a store that work
Classified == Completion(<<Message(Str(<<"c", "o", "d", "e">>))>>)

Embedded == Ok(List(<<>>))

\* the source_types arguments of a search: omitted, empty, one type
SourceTypeArgs == {None, List(<<>>), List(<<Text("git")>>)}

Limits == {Num(n) : n \in 1..MaxLimit}

\* query texts: plain, with whitespace to clean, with a source keyword, with a word
\* that occurs twice, and without any word
QueryTexts ==
    { <<"q">>,
      <<" ", "a", "\t", " ", "b", " ">>,
      <<"A", "P", "I", " ", "d", "o", "c">>,
      <<"b", "\n", "\n", "a", " ", "b">>,
      <<" ", "\t">> }

\* the arguments and collaborators' answers of one SearchEngine.search: every
\* argument with the short answers, and every answer for a filtered search of limit 1
\* and for a search with the defaults
SearchInputs ==
    [query : {Str(<<"q">>)}, source_types : SourceTypeArgs, limit : Limits,
     embedding : EmbeddingAnswers, store : ShortStoreAnswers]
    \cup
    [query : {Str(<<"q">>)}, source_types : {List(<<Text("git")>>)}, limit : {Num(1)},
     embedding : {Embedded}, store : StoreAnswers]
    \cup
    [query : {Str(<<"q">>)}, source_types : {None}, limit : {Num(10)},
     embedding : {Embedded}, store : StoreAnswers]

\* the searches that are followed across their await: one query with the defaults,
\* every answer of the embedding provider and every short answer of the store
ConcurrentInputs ==
    [query : {Str(<<"q">>)}, source_types : {None}, limit : {Num(1)},
     embedding : EmbeddingAnswers, store : ShortStoreAnswers]

\* the characters of the query texts that are enumerated in full
QueryChars == {" ", "\t", "a", "b"}

\* the queries and classifier answers process_query is run on: every text over
\* QueryChars with a classifier that works, and the query texts of the searches, and
\* a query that is no str, with every answer of the classifier
ProcessorInputs ==
    [query : {Str(q) : q \in SeqsUpTo(QueryChars, MaxQueryLen)}, classifier : {Classified}]
    \cup
    [query : {Str(q) : q \in QueryTexts} \cup {Num(42)}, classifier : ClassifierAnswers]

\* the values of the members of a request
JsonrpcValues == {Text("2.0"), Text("1.0")}

\* the four methods of the server, two names it does not know, and a method that is
\* no str
MethodValues ==
    {Text("initialize"), Text("listOfferings"), Text("tools/list"), Text("search"),
     Text("notify"), Text("Search"), Num(7)}

IdValues == {None, Num(1), Text("a"), List(<<>>)}

\* params of a search: query omitted, a str or an int; source_types and limit
\* omitted or given
SearchParams ==
    { Dict(q @@ st @@ lim) :
        q \in {<<>>} \cup {"query" :> x : x \in {Str(<<"q">>), Num(42)}},
        st \in {<<>>, "source_types" :> List(<<Text("git")>>)},
        lim \in {<<>>} \cup {"limit" :> l : l \in Limits} }

ParamsValues ==
    {EmptyDict, None, List(<<>>), List(<<Text("query")>>),
     Dict("query" :> Str(<<"q">>)), Dict("query" :> Num(42))}

Request(jsonrpc, method, params, id) ==
    Dict([jsonrpc |-> jsonrpc, method |-> method, params |-> params, id |-> id])

SearchRequest(params, id) == Request(Text("2.0"), Text("search"), params, id)

\* the requests with all four members: every params for a search, every method,
\* either version
FullRequests ==
    { Request(Text("2.0"), Text("search"), p, i) : p \in ParamsValues, i \in IdValues }
    \cup
    { Request(j, m, EmptyDict, i) :
        j \in JsonrpcValues, m \in MethodValues, i \in IdValues }
    \cup
    { Request(j, m, Dict("query" :> Str(<<"q">>)), i) :
        j \in JsonrpcValues, m \in {Text("search"), Text("Search")}, i \in IdValues }

\* the requests that lack a member
PartialRequests ==
    { Dict(j @@ m @@ p @@ i) :
        j \in {<<>>, "jsonrpc" :> Text("2.0")},
        m \in {<<>>} \cup {"method" :> x : x \in {Text("search"), Text("notify")}},
        p \in {<<>>, "params" :> Dict("query" :> Str(<<"q">>))},
        i \in {<<>>} \cup {"id" :> x : x \in IdValues} }
    \ FullRequests

\* what is no request at all
NonRequests == {List(<<>>), Text("text"), None}

Inputs(requests, classifiers, embeddings, stores) ==
    [request : requests, classifier : classifiers, embedding : embeddings, store : stores]

\* the requests and collaborators' answers handle_request is run on: every request
\* shape with collaborators that work, every classifier answer for every query, every
\* params of a search with a failing provider, a failing store, an empty and a
\* one-point answer, and one search with every short answer and a two-point answer
RequestInputs ==
    Inputs(FullRequests \cup PartialRequests \cup NonRequests,
           {Classified}, {Embedded}, {Ok(<<>>)})
    \cup
    Inputs({SearchRequest(Dict("query" :> Str(t)), Num(1)) : t \in QueryTexts},
           ClassifierAnswers, {Embedded}, {Ok(<<>>)})
    \cup
    Inputs({SearchRequest(p, Num(1)) : p \in SearchParams},
           {Classified}, {Embedded},
           {Fail(<<"Qdrant unavailable">>), Ok(<<>>),
            Ok(<<ScoredPoint("d2", Num(5), Dict([content |-> Text("content"),
                                                 source_type |-> Text("confluence")]))>>)})
    \cup
    Inputs({SearchRequest(p, Num(1)) : p \in SearchParams},
           {Classified}, {Fail(<<"OpenAI unavailable">>)}, {Ok(<<>>)})
    \cup
    Inputs({SearchRequest(Dict("query" :> Str(<<"q">>)), Text("a"))},
           {Classified}, {Embedded},
           ShortStoreAnswers
           \cup {Ok(<<ScoredPoint("d1", Num(5), Payload("git", "T1")),
                      ScoredPoint("d1", Num(8), Payload("git", "T1"))>>)})

\* the lines handle_stdio is fed, with the collaborators' answers: lines that are no
\* request, requests of every method with and without an id, and searches that
\* succeed and fail
StdioInputs ==
    Inputs({BadJson, Json(List(<<>>)),
            Json(Request(Text("1.0"), Text("search"), Dict("query" :> Str(<<"q">>)), Num(1))),
            Json(Dict([jsonrpc |-> Text("2.0"), method |-> Text("notify"),
                       params |-> EmptyDict])),
            Json(Dict([jsonrpc |-> Text("2.0"), method |-> Text("search"),
                       params |-> Dict("query" :> Str(<<"q">>))])),
            Json(Request(Text("2.0"), Text("search"), Dict("query" :> Str(<<"q">>)), None)),
            Json(Request(Text("2.0"), Text("initialize"), EmptyDict, Num(1))),
            Json(Request(Text("2.0"), Text("tools/list"), EmptyDict, Num(1))),
            Json(Request(Text("2.0"), Text("notify"), EmptyDict, Text("a"))),
            Json(Request(Text("2.0"), Text("search"), EmptyDict, Num(1))),
            Json(Request(Text("2.0"), Text("search"), Dict("query" :> Num(42)), Num(1))),
            Json(Dict([jsonrpc |-> Text("2.0"), method |-> Text("search"),
                       id |-> List(<<>>)]))},
           {Classified}, {Embedded}, {Ok(<<>>)})
    \cup
    Inputs({Json(SearchRequest(Dict("query" :> Str(<<"q">>)), Num(1)))},
           {Classified}, {Embedded},
           {Fail(<<"Qdrant unavailable">>), Ok(<<>>),
            Ok(<<ScoredPoint("d1", Num(8), Payload("git", "T1"))>>)})
    \cup
    Inputs({Json(SearchRequest(Dict("query" :> Str(<<"q">>)), Num(1)))},
           {Classified}, {Fail(<<"OpenAI unavailable">>)}, {Ok(<<>>)})

-----------------------------------------------------------------------------
(* The state machine *)

\* what `last` records of an operation: its name, its arguments, the engine before
\* it, and what came out
Op(op, args, pre, out) == [op |-> op, args |-> args, pre |-> pre, out |-> out]

Init ==
    /\ client = NewEngine.client
    /\ config = NewEngine.config
    /\ openai_client = NewEngine.openai_client
    /\ pc = "start"
    /\ lines_read = 0
    /\ stdout = <<>>
    /\ initialized = FALSE
    /\ suspended = None
    /\ last = Op("new", None, NewEngine, Return(None, <<>>))

\* await search_engine.initialize(config.qdrant, config.openai)
Initialize ==
    \E how \in InitializeOutcomes :
        LET r == initialize(Engine, how)
        IN /\ client' = r.eng.client
           /\ config' = r.eng.config
           /\ openai_client' = r.eng.openai_client
           /\ initialized' = (initialized \/ r.res.outcome = "return")
           /\ last' = Op("initialize", how, Engine, r.res)
           /\ UNCHANGED <<suspended, pc, lines_read, stdout>>

\* await search_engine.cleanup()
Cleanup ==
    LET r == cleanup(Engine)
    IN /\ client' = r.eng.client
       /\ config' = r.eng.config
       /\ openai_client' = r.eng.openai_client
       /\ last' = Op("cleanup", None, Engine, r.res)
       /\ UNCHANGED <<suspended, pc, lines_read, stdout, initialized>>

\* a search as it would be if a failed search closed the vector-store client
SearchClosingOnFailure ==
    \E in \in SearchInputs :
        LET out == search(Engine, in.query, in.source_types, in.limit,
                          in.embedding, in.store)
        IN /\ last' = Op("search", in, Engine, out)
           /\ client' = IF out.outcome = "raise" THEN "None" ELSE client
           /\ UNCHANGED <<suspended, config, openai_client, pc, lines_read, stdout, initialized>>

\* await search_engine.search(query, source_types, limit)
Search ==
    \E in \in SearchInputs :
        /\ last' = Op("search", in, Engine,
                      search(Engine, in.query, in.source_types, in.limit,
                             in.embedding, in.store))
        /\ UNCHANGED <<suspended, client, config, openai_client, pc, lines_read, stdout, initialized>>

\* a task calls search: the call fails at the checks of lines 109 and 76, or it
\* reaches `await self.openai_client.embeddings.create` and is suspended there
\* while other tasks run
SearchStart ==
    /\ suspended = None
    /\ \E in \in ConcurrentInputs :
          IF client = "None" \/ config = "None" \/ openai_client = "None"
          THEN /\ last' = Op("search", in, Engine,
                             search(Engine, in.query, in.source_types, in.limit,
                                    in.embedding, in.store))
               /\ UNCHANGED suspended
          ELSE /\ suspended' = [args |-> in, checked |-> Engine]
               /\ UNCHANGED last
    /\ UNCHANGED <<client, config, openai_client, pc, lines_read, stdout, initialized>>

\* the embedding provider answers and the suspended search runs to its end
SearchResume ==
    /\ suspended # None
    /\ last' = Op("search_resumed", suspended, Engine,
                  search_resumed(Engine, suspended.args.query, suspended.args.source_types,
                                 suspended.args.limit, suspended.args.embedding,
                                 suspended.args.store))
    /\ suspended' = None
    /\ UNCHANGED <<client, config, openai_client, pc, lines_read, stdout, initialized>>

\* await mcp_handler.handle_request(request)
HandleRequest ==
    \E in \in RequestInputs :
        /\ last' = Op("handle_request", in, Engine,
                      handle_request(Engine, in.request, in.classifier,
                                     in.embedding, in.store))
        /\ UNCHANGED <<suspended, client, config, openai_client, pc, lines_read, stdout, initialized>>

\* handle_stdio up to its loop, lines 152-163: the engine is initialized, and a
\* failure ends handle_stdio with RuntimeError
StdioStart ==
    /\ pc = "start"
    /\ \E how \in InitializeOutcomes :
          LET r == initialize(Engine, how)
          IN /\ client' = r.eng.client
             /\ config' = r.eng.config
             /\ openai_client' = r.eng.openai_client
             /\ pc' = IF r.res.outcome = "return" THEN "loop" ELSE "failed"
             /\ initialized' = (initialized \/ r.res.outcome = "return")
             /\ last' = Op("initialize", how, Engine, r.res)
             /\ UNCHANGED <<suspended, lines_read, stdout>>

\* the turn as it would be if the loop ended after writing an error response
StdioLineEndingOnError ==
    /\ pc = "loop"
    /\ lines_read < MaxLines
    /\ \E in \in StdioInputs :
          /\ last' = Op("stdio_turn", in, Engine,
                        stdio_turn(Engine, in.request, in.classifier, in.embedding, in.store))
          /\ stdout' = stdout \o last'.out.written
          /\ lines_read' = lines_read + 1
          /\ pc' = IF \E i \in 1..Len(last'.out.written) :
                         "error" \in DOMAIN last'.out.written[i].v
                   THEN "done" ELSE pc
          /\ UNCHANGED <<suspended, client, config, openai_client, initialized>>

\* one turn of the loop of handle_stdio for a line that is not the end of input
StdioLine ==
    /\ pc = "loop"
    /\ lines_read < MaxLines
    /\ \E in \in StdioInputs :
          LET turn == stdio_turn(Engine, in.request, in.classifier, in.embedding, in.store)
          IN /\ stdout' = stdout \o turn.written
             /\ lines_read' = lines_read + 1
             /\ last' = Op("stdio_turn", in, Engine, turn)
             /\ UNCHANGED <<suspended, client, config, openai_client, pc, initialized>>

\* one turn of the loop that is cancelled, by shutdown() of main.py:122-140, at an
\* await the turn reaches: the call in flight is among the calls of the turn
StdioCancel ==
    /\ pc = "loop"
    /\ lines_read < MaxLines
    /\ \E in \in StdioInputs, at \in AwaitPoints :
          /\ last' = Op("cancelled",
                        [request |-> in.request, classifier |-> in.classifier,
                         embedding |-> in.embedding, store |-> in.store, at |-> at],
                        Engine,
                        stdio_turn_cancelled(Engine, in.request, in.classifier,
                                             in.embedding, in.store, at))
          /\ \/ at = "readline"
             \/ \E i \in 1..Len(last'.out.handled.calls) :
                   last'.out.handled.calls[i].api = at
          /\ stdout' = stdout \o last'.out.written
          /\ lines_read' = IF at = "readline" THEN lines_read ELSE lines_read + 1
          /\ pc' = IF last'.out.stop THEN "done" ELSE "loop"
          /\ UNCHANGED <<suspended, client, config, openai_client, initialized>>

\* reader.readline() returns no bytes: the loop ends, line 172-175
StdioEOF ==
    /\ pc = "loop"
    /\ pc' = "done"
    /\ last' = Op("eof", None, Engine, Return(None, <<>>))
    /\ UNCHANGED <<suspended, client, config, openai_client, lines_read, stdout, initialized>>

\* `line = await reader.readline()` hands the loop a line, lines 171-184, and the
\* turn for it starts: it is suspended until the external calls of its handling
\* have given the answers they are going to give. Nothing else runs meanwhile that
\* changes the engine, so what the turn does is settled from here
StdioRead ==
    /\ pc = "loop"
    /\ lines_read < MaxLines
    /\ \E in \in StdioInputs :
          /\ suspended' = [args |-> in,
                           turn |-> stdio_turn(Engine, in.request, in.classifier,
                                               in.embedding, in.store)]
          /\ last' = Op("readline", in, Engine, Return(None, <<>>))
    /\ lines_read' = lines_read + 1
    /\ pc' = "handling"
    /\ UNCHANGED <<client, config, openai_client, stdout, initialized>>

\* the turn for the line that was read comes to its end, lines 186-263: the
\* external calls have answered, and the response, if any, is written
StdioRespond ==
    /\ pc = "handling"
    /\ last' = Op("stdio_turn", suspended.args, Engine, suspended.turn)
    /\ stdout' = stdout \o suspended.turn.written
    /\ suspended' = None
    /\ pc' = "loop"
    /\ UNCHANGED <<client, config, openai_client, lines_read, initialized>>

\* await query_processor.process_query(query), on a query that is drawn once
ProcessQuery ==
    /\ last.op = "new"
    /\ \E in \in ProcessorInputs :
          last' = Op("process_query", in, Engine, process_query(in.query, in.classifier))
    /\ UNCHANGED <<suspended, client, config, openai_client, pc, lines_read, stdout, initialized>>

\* await query_processor.process_query(processed["query"]): the query that came out
\* is processed again
ProcessAgain ==
    /\ last.op \in {"process_query", "process_again"}
    /\ last.out.outcome = "return"
    /\ LET in == [query |-> last.out.value.v["query"], classifier |-> last.args.classifier]
       IN last' = Op("process_again", in, Engine, process_query(in.query, in.classifier))
    /\ UNCHANGED <<suspended, client, config, openai_client, pc, lines_read, stdout, initialized>>

\* the engine, called directly
Next == Initialize \/ Cleanup \/ Search

Spec == Init /\ [][Next]_vars

\* the engine and the handler in front of it
NextHandler == Initialize \/ Cleanup \/ HandleRequest

SpecHandler == Init /\ [][NextHandler]_vars

\* the server process: python -m src.main
NextStdio == StdioStart \/ StdioLine \/ StdioCancel \/ StdioEOF

SpecStdio == Init /\ [][NextStdio]_vars

\* the query processor on its own
NextProcessor == ProcessQuery \/ ProcessAgain

SpecProcessor == Init /\ [][NextProcessor]_vars

\* the server process when nothing cancels it and every external call answers: a
\* line that was read is handled to its end, the event loop resuming the task
\* when the call it waits for has answered
NextStdioLive == StdioStart \/ StdioRead \/ StdioRespond \/ StdioEOF

SpecStdioLive == Init /\ [][NextStdioLive]_vars /\ WF_vars(StdioRespond)

\* the engine shared by tasks of one event loop: initialize and cleanup can run
\* while a search is suspended at its await
NextConcurrent == Initialize \/ Cleanup \/ SearchStart \/ SearchResume

SpecConcurrent == Init /\ [][NextConcurrent]_vars
-----------------------------------------------------------------------------
(* Properties of SearchEngine.search, under Spec *)

\* the last operation was a search that returned
SearchReturned == last.op = "search" /\ last.out.outcome = "return"

\* the list a returned search gave back
Results == last.out.value.v

\* the documents the results derive from: result i is the conversion of the i-th
\* convertible point of the store's answer
Origins == [i \in 1..Len(Processable(last.args.store.v)) |->
               Processable(last.args.store.v)[i].id]

\* the engine passes the checks that precede the embedding call
Ready(eng) == eng.client # "None" /\ eng.config # "None" /\ eng.openai_client # "None"

\* C1: after a successful search with a non-empty source_types, every result's
\* source_type is one of source_types.
C1_ResultsWithinSourceTypes ==
    (/\ SearchReturned
     /\ last.args.source_types.t = "list"
     /\ last.args.source_types.v # <<>>)
    => \A i \in 1..Len(Results) :
          \E j \in 1..Len(last.args.source_types.v) :
              Results[i].source_type = last.args.source_types.v[j]

\* C2: after a successful search with limit L, the result list has at most L elements.
C2_AtMostLimitResults ==
    SearchReturned => Len(Results) <= last.args.limit.v

\* C3: after a successful search, the results are in non-increasing order of score.
C3_ResultsSortedByScore ==
    SearchReturned =>
        \A i \in 1..(Len(Results) - 1) : Results[i].score.v >= Results[i + 1].score.v

\* C4: after a successful search, no two results derive from the same document.
C4_OneResultPerDocument ==
    SearchReturned =>
        \A i, j \in 1..Len(Results) : i # j => Origins[i] # Origins[j]

\* C5: a successful search has issued a vector search and a lexical search (a scroll
\* of the collection) before it built its result list.
C5_VectorAndLexicalSearchIssued ==
    SearchReturned =>
        /\ \E i \in 1..Len(last.out.calls) : last.out.calls[i].api = "client.search"
        /\ \E i \in 1..Len(last.out.calls) : last.out.calls[i].api = "client.scroll"

\* C7: a search whose embedding call fails, or whose vector-store call fails, raises
\* that failure and returns nothing.
C7_BackendFailureIsRaised ==
    (last.op = "search" /\ Ready(last.pre)) =>
        /\ last.args.embedding.t = "error" =>
              /\ last.out.outcome = "raise"
              /\ last.out.text = last.args.embedding.v
        /\ (last.args.embedding.t = "ok" /\ last.args.store.t = "error") =>
              /\ last.out.outcome = "raise"
              /\ last.out.text = last.args.store.v

\* C7's case: the vector store failed after a successful embedding, and search raised
C7_Witness ==
    /\ last.op = "search"
    /\ Ready(last.pre)
    /\ last.args.embedding.t = "ok"
    /\ last.args.store.t = "error"
    /\ last.out.outcome = "raise"
    /\ Len(last.out.calls) = 2

\* the errors search raises for a missing client, config or embedding client
NotInitializedErrors ==
    {<<"Search engine not initialized">>, <<"OpenAI client not initialized">>}

\* C9: a search on an engine no initialize of which has completed raises a
\* not-initialized error without calling the embedding provider or the vector store.
C9_NotInitializedBeforeAnyCall ==
    (last.op = "search" /\ ~initialized) =>
        /\ last.out.outcome = "raise"
        /\ last.out.text \in NotInitializedErrors
        /\ last.out.calls = <<>>

\* the points of the store's answer, in the order of the results they become, and
\* what the store said their similarity was
Raw == Processable(last.args.store.v)

\* C25: the score of a result found by the vector channel alone is the vector
\* channel's weight, a factor below one, times the raw similarity score the store
\* gave, and not the raw score itself. Scores are in tenths.
C25_VectorOnlyScoreIsDamped ==
    SearchReturned =>
        \A i \in 1..Len(Results) :
            \E weight \in 1..9 : Results[i].score.v * 10 = weight * Raw[i].score.v

\* the record cannot be converted: its payload holds a metadata that is no dict
Malformed(point) ==
    /\ point.payload.t = "dict"
    /\ "metadata" \in DOMAIN point.payload.v
    /\ point.payload.v["metadata"].t \notin {"dict", "None"}

\* the records of the store's answer that can be converted, in their order
WellFormed == SelectSeq(last.args.store.v, LAMBDA point : ~Malformed(point))

\* the store answered the last search with a list of records
SearchAnswered ==
    /\ last.op = "search"
    /\ Ready(last.pre)
    /\ last.args.embedding.t = "ok"
    /\ last.args.store.t = "ok"

\* C26: when a record of the store's answer cannot be converted to a SearchResult,
\* search skips that record only: it does not raise, and it returns the conversions
\* of all the other records, in their order.
C26_BadRecordIsSkipped ==
    SearchAnswered
    => /\ last.out.outcome = "return"
       /\ Len(Results) = Len(WellFormed)
       /\ \A i \in 1..Len(Results) :
             /\ Results[i].score = WellFormed[i].score
             /\ WellFormed[i].payload.t = "dict"
                   => Results[i].text = WellFormed[i].payload.v["content"]

\* C26's case: the store answered with a malformed record followed by a good one,
\* and the search returned the one result
C26_Witness ==
    /\ SearchAnswered
    /\ Len(last.args.store.v) = 2
    /\ Malformed(last.args.store.v[1])
    /\ ~Malformed(last.args.store.v[2])
    /\ last.out.outcome = "return"
    /\ Len(Results) = 1

\* the fields of a record's payload, none when it has no payload
Fields(point) == IF point.payload.t = "dict" THEN DOMAIN point.payload.v ELSE {}

\* the fields of the metadata in a record's payload
MetadataFields(point) ==
    IF "metadata" \in Fields(point) /\ point.payload.v["metadata"].t = "dict"
    THEN DOMAIN point.payload.v["metadata"].v
    ELSE {}

\* C27: a record without payload, or whose payload lacks fields, is returned and not
\* skipped: a missing source_type becomes "unknown", a missing title and a missing
\* content the empty string, and a missing url, file_path and repository_name null.
C27_MissingFieldsGetDefaults ==
    SearchAnswered
    => /\ last.out.outcome = "return"
       /\ Len(Results) = Len(WellFormed)
       /\ \A i \in 1..Len(Results) :
             /\ "source_type" \notin Fields(WellFormed[i])
                   => Results[i].source_type = Text("unknown")
             /\ "content" \notin Fields(WellFormed[i]) => Results[i].text = Text("")
             /\ "title" \notin MetadataFields(WellFormed[i])
                   => Results[i].source_title = Text("")
             /\ "url" \notin MetadataFields(WellFormed[i]) => Results[i].source_url = None
             /\ "file_path" \notin MetadataFields(WellFormed[i])
                   => Results[i].file_path = None
             /\ "repository_name" \notin MetadataFields(WellFormed[i])
                   => Results[i].repo_name = None

\* C27's case: the store answered with a record without payload and a record whose
\* payload has no metadata, and both were returned
C27_Witness ==
    /\ SearchAnswered
    /\ Len(last.args.store.v) = 2
    /\ last.args.store.v[1].payload = None
    /\ Fields(last.args.store.v[2]) = {"content", "source_type"}
    /\ last.out.outcome = "return"
    /\ Len(Results) = 2
    /\ Results[1].source_type = Text("unknown")
    /\ Results[2].source_title = Text("")

\* C29: a search, whether it returns or raises, leaves the engine's vector-store
\* client, configuration and embedding client as they were before the call.
C29_SearchLeavesEngineUnchanged ==
    [][last'.op = "search"
       => /\ client' = client
          /\ config' = config
          /\ openai_client' = openai_client
          /\ last'.pre = Engine]_vars

\* C29's case: a search failed at the vector store, and the engine is as ready for
\* the next search as it was for this one
C29_Witness ==
    /\ last.op = "search"
    /\ last.out.outcome = "raise"
    /\ last.out.text = <<"Qdrant unavailable">>
    /\ Ready(last.pre)
    /\ Engine = last.pre

\* the scores of a list of records or of results, in the order of the list
Scores(list) == [i \in 1..Len(list) |-> list[i].score]

\* the source type search reports for a record
SourceTypeOf(point) ==
    IF point.payload.t = "dict" /\ "source_type" \in DOMAIN point.payload.v
    THEN point.payload.v["source_type"]
    ELSE Text("unknown")

FailedNotInitialized(op) ==
    /\ op.out.outcome = "raise"
    /\ op.out.text \in NotInitializedErrors
    /\ op.out.calls = <<>>

\* C33: when initialize raises, the engine is left not initialized: the search
\* that follows fails with the not-initialized error, without calling the embedding
\* provider or the vector store.
C33_FailedInitializeLeavesNotInitialized ==
    [][(last.op = "initialize" /\ last.out.outcome = "raise" /\ last'.op = "search")
       => FailedNotInitialized(last')]_vars

\* C34: cleanup is safe in every state of the engine. It closes the vector-store
\* client when there is one and forgets it, so that a cleanup that finds no client
\* (a second cleanup, or one of an engine that was never initialized) calls nothing
\* and changes nothing; and as long as the engine has no client, every search
\* fails with the not-initialized error before any outbound call.
C34_CleanupIsIdempotent ==
    [][/\ last'.op = "cleanup"
          => /\ last'.out.outcome = "return"
             /\ client' = "None"
             /\ last'.out.calls = IF client = "None" THEN <<>> ELSE <<Call("close", None)>>
             /\ client = "None" => Engine' = Engine
       /\ (last.op = "cleanup" /\ last'.op = "cleanup") => last'.out.calls = <<>>
       /\ (last'.op = "search" /\ (client = "None" \/ last.op = "cleanup"))
          => /\ FailedNotInitialized(last')
             /\ last'.out.text = <<"Search engine not initialized">>]_vars

\* C34's case: an engine that was initialized and cleaned up is cleaned up again,
\* and the second cleanup closed nothing
C34_Witness ==
    /\ last.op = "cleanup"
    /\ initialized
    /\ last.pre.client = "None"
    /\ last.pre.openai_client # "None"
    /\ last.out.calls = <<>>
    /\ Engine = last.pre

-----------------------------------------------------------------------------
(* Properties of SearchEngine.search next to cleanup, under SpecConcurrent *)

\* a search that had passed its checks got its embedding after cleanup had run
ResumedAfterCleanup ==
    /\ last.op = "search_resumed"
    /\ Ready(last.args.checked)
    /\ last.args.args.embedding.t = "ok"
    /\ last.pre.client = "None"

\* C32: when cleanup runs while a search is suspended waiting for its embedding,
\* the search does not use the client that is gone: it returns, having used the
\* client it checked, or it raises the engine's not-initialized error.
C32_SuspendedSearchSurvivesCleanup ==
    ResumedAfterCleanup
    => \/ last.out.outcome = "return"
       \/ last.out.outcome = "raise" /\ last.out.text \in NotInitializedErrors

-----------------------------------------------------------------------------
(* Properties of MCPHandler.handle_request, under SpecHandler *)

\* the last operation was handle_request on a dict with all four members
Dispatched ==
    /\ last.op = "handle_request"
    /\ last.args.request.t = "dict"
    /\ validate_request(last.args.request)

\* the members of that request
Member(key) == last.args.request.v[key]

\* a search request with a non-null id whose params hold a query
SearchWithQuery ==
    /\ Dispatched
    /\ Member("id").t # "None"
    /\ IsStr(Member("method"), "search")
    /\ Member("params").t = "dict"
    /\ "query" \in DOMAIN Member("params").v

Response == last.out.response

\* what process_query and search do for the last request
Processed == process_query(Member("params").v["query"], last.args.classifier)

Searched ==
    search(last.pre, Processed.value.v["query"],
           Get(Member("params"), "source_types", List(<<>>)),
           Get(Member("params"), "limit", Num(10)),
           last.args.embedding, last.args.store)

\* C6: on an initialized engine whose embedding call succeeds, a store that hands
\* back no point makes search return the empty list, and the handler answer the
\* request with a result whose results are [].
C6_NoCandidatesIsEmptySuccess ==
    (/\ SearchWithQuery
     /\ Member("params").v["query"].t = "str"
     /\ Ready(last.pre)
     /\ last.args.embedding.t = "ok"
     /\ last.args.store.t = "ok"
     /\ last.args.store.v = <<>>)
    => /\ Searched.outcome = "return"
       /\ Searched.value.v = <<>>
       /\ DOMAIN Response.v = {"jsonrpc", "id", "result"}
       /\ Response.v["id"] = Member("id")
       /\ Response.v["result"].v["results"].v = <<>>

\* C6's case: such a request was handled, after both outbound calls of the search
C6_Witness ==
    /\ SearchWithQuery
    /\ Ready(last.pre)
    /\ last.args.embedding.t = "ok"
    /\ last.args.store.t = "ok"
    /\ last.args.store.v = <<>>
    /\ \E i \in 1..Len(last.out.calls) : last.out.calls[i].api = "client.search"
    /\ "result" \in DOMAIN Response.v

\* the exception the handling of the last search request ran into, if any
Raised == IF Processed.outcome = "raise" THEN Processed ELSE Searched

\* C8: when process_query or search raises e for a search request with a non-null
\* id and a query, the response has the request's id, an error of code -32603 with
\* data str(e), and no result.
C8_ExceptionIsInternalError ==
    (SearchWithQuery /\ Raised.outcome = "raise")
    => /\ DOMAIN Response.v = {"jsonrpc", "id", "error"}
       /\ Response.v["id"] = Member("id")
       /\ Response.v["error"].v.code = -32603
       /\ Response.v["error"].v.data = Raised.text

\* C8's cases: process_query raised; the engine was not initialized; a provider failed
C8_Witness ==
    /\ SearchWithQuery
    /\ Processed.outcome = "return"
    /\ Searched.outcome = "raise"
    /\ Searched.text = <<"Qdrant unavailable">>
    /\ "error" \in DOMAIN Response.v

\* a search request with a non-null id whose params are a container, a JSON object
\* or array, that holds no query
SearchWithoutQuery ==
    /\ Dispatched
    /\ Member("id").t # "None"
    /\ IsStr(Member("method"), "search")
    /\ \/ Member("params").t = "dict" /\ "query" \notin DOMAIN Member("params").v
       \/ /\ Member("params").t = "list"
          /\ \A i \in 1..Len(Member("params").v) : ~IsStr(Member("params").v[i], "query")

C12_InvalidQueryIsInvalidParams ==
    (SearchWithQuery /\ Member("params").v["query"].t # "str")
    => /\ DOMAIN Response.v = {"jsonrpc", "id", "error"}
       /\ Response.v["error"].v.code = -32602

\* the methods handle_request dispatches
KnownMethods == {"initialize", "listOfferings", "tools/list", "search"}

\* a request with all four members and a non-null id whose method is none of them
UnknownMethod ==
    /\ Dispatched
    /\ Member("id").t # "None"
    /\ \A m \in KnownMethods : ~IsStr(Member("method"), m)

Handling == last.op = "handle_request"

\* the response is the error -32600 of a JSON-RPC 2.0 response
IsInvalidRequest(response) ==
    /\ DOMAIN response.v = {"jsonrpc", "id", "error"}
    /\ response.v["jsonrpc"] = Text("2.0")
    /\ response.v["error"].v.code = -32600

\* C14: handle_request answers every input that is no JSON object, and every object
\* that lacks the jsonrpc or the method member, with an error response of code
\* -32600 and jsonrpc "2.0", and dispatches to no method handler.
C14_MalformedRequestIsInvalidRequest ==
    (/\ Handling
     /\ \/ last.args.request.t # "dict"
        \/ "jsonrpc" \notin DOMAIN last.args.request.v
        \/ "method" \notin DOMAIN last.args.request.v)
    => /\ IsInvalidRequest(Response)
       /\ last.out.handler = ""
       /\ last.out.calls = <<>>

\* C14's case: an object with jsonrpc, params and a usable id, but without method,
\* was answered with its id
C14_Witness ==
    /\ Handling
    /\ last.args.request.t = "dict"
    /\ DOMAIN last.args.request.v = {"jsonrpc", "params", "id"}
    /\ last.args.request.v["id"] = Num(1)
    /\ IsInvalidRequest(Response)
    /\ Response.v["id"] = Num(1)

\* C15: a request whose jsonrpc member is anything but "2.0" is invalid, even with
\* method, params and id present: validate_request returns false for it, and
\* handle_request answers it with error -32600 and does not dispatch its method.
C15_WrongVersionIsInvalidRequest ==
    (/\ Handling
     /\ last.args.request.t = "dict"
     /\ "jsonrpc" \in DOMAIN last.args.request.v
     /\ ~IsStr(last.args.request.v["jsonrpc"], "2.0"))
    => /\ ~validate_request(last.args.request)
       /\ IsInvalidRequest(Response)
       /\ last.out.handler = ""

\* C16: a request with jsonrpc "2.0", a method and an id but no params member is
\* valid: validate_request accepts it, and handle_request does not answer it with
\* error -32600.
C16_RequestWithoutParamsIsValid ==
    (/\ Handling
     /\ last.args.request.t = "dict"
     /\ DOMAIN last.args.request.v = {"jsonrpc", "method", "id"}
     /\ IsStr(last.args.request.v["jsonrpc"], "2.0"))
    => /\ validate_request(last.args.request)
       /\ ~IsInvalidRequest(Response)

\* C18: an initialize request with a non-null id is answered with a success
\* response, a result and no error, that carries the request's id, protocolVersion
\* "2024-11-05" and serverInfo.name "Qdrant Loader MCP Server".
C18_InitializeSucceeds ==
    (/\ Dispatched
     /\ Member("id").t # "None"
     /\ IsStr(Member("method"), "initialize"))
    => /\ DOMAIN Response.v = {"jsonrpc", "id", "result"}
       /\ Response.v["id"] = Member("id")
       /\ Response.v["result"].v.protocolVersion = Text("2024-11-05")
       /\ Response.v["result"].v.serverInfo.v.name = Text("Qdrant Loader MCP Server")

\* the classifier call failed, returned no choices, or returned no or empty content
ClassifierFailed(classifier) ==
    \/ classifier.t = "error"
    \/ classifier.v.v = <<>>
    \/ classifier.v.v[1] = None
    \/ classifier.v.v[1].v["content"] \in {None, Str(<<>>)}

\* a search request with a non-null id whose query is a str
SearchWithText == SearchWithQuery /\ Member("params").v["query"].t = "str"

\* C19: when the classifier call fails, returns no choices or returns empty
\* content, process_query still returns, with the intent "general", and the search
\* request goes on to the engine: the response is what the engine's search gives.
C19_ClassifierFailureIsGeneral ==
    (SearchWithText /\ ClassifierFailed(last.args.classifier))
    => /\ Processed.outcome = "return"
       /\ Processed.value.v["intent"] = Str(General)
       /\ last.out.calls = Processed.calls \o Searched.calls
       /\ Ready(last.pre) =>
             \E i \in 1..Len(last.out.calls) : last.out.calls[i].api = "embeddings.create"
       /\ Searched.outcome = "return" =>
             /\ DOMAIN Response.v = {"jsonrpc", "id", "result"}
             /\ Len(Response.v["result"].v["results"].v) = Len(Searched.value.v)
       /\ Searched.outcome = "raise" =>
             /\ DOMAIN Response.v = {"jsonrpc", "id", "error"}
             /\ Response.v["error"].v.data = Searched.text

\* C19's case: the classifier call failed, and the search was run and answered
C19_Witness ==
    /\ SearchWithText
    /\ last.args.classifier.t = "error"
    /\ Ready(last.pre)
    /\ \E i \in 1..Len(last.out.calls) : last.out.calls[i].api = "chat.completions.create"
    /\ \E i \in 1..Len(last.out.calls) : last.out.calls[i].api = "client.search"
    /\ "result" \in DOMAIN Response.v

\* the categories the classifier is asked to choose from
Categories ==
    { <<"c", "o", "d", "e">>,
      <<"d", "o", "c", "u", "m", "e", "n", "t", "a", "t", "i", "o", "n">>,
      <<"i", "s", "s", "u", "e">>,
      General }

\* C20: for every classifier response, whitespace-only text and text that names no
\* category included, the intent process_query returns is one of code,
\* documentation, issue, general.
C20_IntentIsACategory ==
    SearchWithText
    => /\ Processed.outcome = "return"
       /\ Processed.value.v["intent"].v \in Categories

\* how often w occurs in s
Occurrences(w, s) ==
    Cardinality({i \in 1..(Len(s) - Len(w) + 1) : SubSeq(s, i, i + Len(w) - 1) = w})

\* how often a text mentions API or its full phrase, whatever the case
MentionsOfApi(s) ==
    Occurrences(<<"a", "p", "i">>, Lower(s))
    + Occurrences(
        <<"a", "p", "p", "l", "i", "c", "a", "t", "i", "o", "n", " ",
          "p", "r", "o", "g", "r", "a", "m", "m", "i", "n", "g", " ",
          "i", "n", "t", "e", "r", "f", "a", "c", "e">>, Lower(s))

\* the texts the last request sent to the embedding provider
EmbeddedTexts ==
    {last.out.calls[i].arg : i \in {j \in 1..Len(last.out.calls) :
                                       last.out.calls[j].api = "embeddings.create"}}

\* C21: for a search whose query mentions the abbreviation API, the text sent to the
\* embedding provider mentions API, or its expansion, more often than the query does.
C21_AbbreviationIsExpanded ==
    (/\ SearchWithText
     /\ Ready(last.pre)
     /\ MentionsOfApi(Member("params").v["query"].v) > 0)
    => /\ EmbeddedTexts # {}
       /\ \A text \in EmbeddedTexts :
             MentionsOfApi(text.v) > MentionsOfApi(Member("params").v["query"].v)

\* str.split(): the whitespace-separated tokens of a text, in their order
RECURSIVE Tokens(_)
Tokens(s) ==
    LET t == LStrip(s)
        ends == {i \in 1..Len(t) : t[i] \in Whitespace}
        n == IF ends = {} THEN Len(t) + 1 ELSE CHOOSE i \in ends : \A j \in ends : i <= j
    IN IF t = <<>> THEN <<>>
       ELSE <<SubSeq(t, 1, n - 1)>> \o Tokens(SubSeq(t, n, Len(t)))

\* a is b with some elements left out
RECURSIVE IsSubsequence(_, _)
IsSubsequence(a, b) ==
    IF a = <<>> THEN TRUE
    ELSE IF b = <<>> THEN FALSE
    ELSE IF Head(a) = Head(b) THEN IsSubsequence(Tail(a), Tail(b))
    ELSE IsSubsequence(a, Tail(b))

\* C23: the processed query keeps every token of the original query: for a search
\* request with a str query, search_engine.search is called, and the
\* whitespace-separated tokens of the request's query are a subsequence, in the same
\* order, of the tokens of the query it is called with.
C23_NoTokenIsDropped ==
    SearchWithText
    => /\ Len(last.out.engine) = 1
       /\ IsSubsequence(Tokens(Member("params").v["query"].v),
                         Tokens(last.out.engine[1].arg.query.v))

\* C23's case: a query of three words, one of them twice, whose whitespace the
\* cleaning rewrote, went on to the engine
C23_Witness ==
    /\ SearchWithText
    /\ Len(Tokens(Member("params").v["query"].v)) = 3
    /\ Len(last.out.engine) = 1
    /\ last.out.engine[1].arg.query # Member("params").v["query"]
    /\ Len(Tokens(last.out.engine[1].arg.query.v)) = 3

\* the names of the collaborators' calls the last request made, in their order
Apis == [i \in 1..Len(last.out.calls) |-> last.out.calls[i].api]

\* C28: within one search request the outbound calls are in order: the classifier's
\* answer is in before the embedding request starts, which carries the processed
\* query; the vector store is searched only after the embedding request has
\* succeeded, and never when it failed.
C28_CallsAreOrdered ==
    SearchWithText
    => /\ Apis \in {<<"chat.completions.create">>,
                     <<"chat.completions.create", "embeddings.create">>,
                     <<"chat.completions.create", "embeddings.create", "client.search">>}
       /\ Len(Apis) >= 2 => last.out.calls[2].arg = Processed.value.v["query"]
       /\ Len(Apis) = 3 => last.args.embedding.t = "ok"
       /\ (Ready(last.pre) /\ last.args.embedding.t = "ok") => Len(Apis) = 3

\* C28's case: the embedding request of a search failed after the classifier had
\* answered, and the vector store was not called
C28_Witness ==
    /\ SearchWithText
    /\ Ready(last.pre)
    /\ last.args.embedding.t = "error"
    /\ Apis = <<"chat.completions.create", "embeddings.create">>
    /\ "error" \in DOMAIN Response.v

\* no keyword of a source type occurs in the text
NoSourceKeyword(text) ==
    \A k \in 1..Len(source_keywords) :
        \A j \in 1..Len(source_keywords[k].keywords) :
            ~IsSubstring(source_keywords[k].keywords[j], Lower(text))

\* C30: the source-type hint is advisory: process_query returns, with the hint None
\* when no keyword matches, and whatever the hint, search_engine.search is called
\* with the source_types of the request, the empty list when it gives none.
C30_HintIsAdvisory ==
    SearchWithText
    => /\ Processed.outcome = "return"
       /\ NoSourceKeyword(Member("params").v["query"].v)
             => Processed.value.v["source_type"] = None
       /\ Len(last.out.engine) = 1
       /\ last.out.engine[1].arg.source_types =
             (IF "source_types" \in DOMAIN Member("params").v
              THEN Member("params").v["source_types"]
              ELSE List(<<>>))

\* C30's case: a query with the keyword of a source type, in a request that gives
\* no source_types, went to the engine with the empty list
C30_Witness ==
    /\ SearchWithText
    /\ "source_types" \notin DOMAIN Member("params").v
    /\ Processed.value.v["source_type"] = Text("confluence")
    /\ Len(last.out.engine) = 1
    /\ last.out.engine[1].arg.source_types = List(<<>>)

\* the value is a JSON-RPC response object
IsResponseObject(response) ==
    /\ response.t = "dict"
    /\ {"jsonrpc", "id"} \subseteq DOMAIN response.v
    /\ DOMAIN response.v \subseteq {"jsonrpc", "id", "result", "error"}

\* C35: no exception leaves handle_request. Whatever the request (an object or
\* not, with params of any type) and whatever the classifier, the embedding
\* provider and the vector store answer, it returns {} or a response object.
C35_HandleRequestAlwaysReturns ==
    Handling => (Response = EmptyDict \/ IsResponseObject(Response))

\* C35's case: a search whose params are not a container, so that _handle_search
\* raises TypeError, was answered with an error response that carries its id
C35_Witness ==
    /\ Dispatched
    /\ IsStr(Member("method"), "search")
    /\ Member("id").t # "None"
    /\ Member("params").t \notin {"dict", "list"}
    /\ IsResponseObject(Response)
    /\ Response.v["error"].v.code = -32603
    /\ Response.v["id"] = Member("id")

-----------------------------------------------------------------------------
(* Properties of handle_stdio, under SpecStdio *)

\* the last operation was a turn of the loop for a line that is a JSON object
TurnOnObject ==
    /\ last.op = "stdio_turn"
    /\ last.args.request.t = "json"
    /\ last.args.request.v.t = "dict"

\* the line of stdout is an error response of the given code with id null
IsErrorLine(line, code) ==
    /\ DOMAIN line.v = {"jsonrpc", "id", "error"}
    /\ line.v["id"] = None
    /\ line.v["error"].v.code = code

C10_NotificationGetsNoReply ==
    (TurnOnObject /\ "id" \notin DOMAIN last.args.request.v.v)
    => /\ last.out.written = <<>>
       /\ last.out.called => last.out.handled.response = EmptyDict
\* C24: when the handling of a request is cancelled while it is in progress, at the
\* classifier call or at the embedding call, the turn writes nothing to stdout for
\* that request, and the loop ends.
C24_CancelledRequestWritesNothing ==
    [][(last'.op = "cancelled" /\ last'.args.at # "readline")
       => /\ stdout' = stdout
          /\ last'.out.written = <<>>
          /\ pc' = "done"]_vars

\* C24's case: after a first request was answered, a search was cancelled while its
\* embedding call was in flight, the classifier having answered
C24_Witness ==
    /\ last.op = "cancelled"
    /\ last.args.at = "embeddings.create"
    /\ Len(last.out.handled.calls) = 2
    /\ lines_read = 2
    /\ Len(stdout) = 1
    /\ pc = "done"


\* the response has jsonrpc "2.0", an id member, and one of result and error
WellFormedResponse(response) ==
    /\ response.t = "dict"
    /\ {"jsonrpc", "id"} \subseteq DOMAIN response.v
    /\ response.v["jsonrpc"] = Text("2.0")
    /\ ("result" \in DOMAIN response.v) # ("error" \in DOMAIN response.v)

\* the last turn handed handle_request a request that it dispatched by its method
TurnDispatched ==
    /\ TurnOnObject
    /\ last.out.called
    /\ validate_request(last.args.request.v)
    /\ last.args.request.v.v["id"] # None

\* C36: every line on stdout, and every response handle_request returned that is
\* not {}, has jsonrpc "2.0", an id member and exactly one of result and error; and
\* the response to a request that was dispatched has the request's id.
C36_ResponsesAreWellFormed ==
    /\ \A i \in 1..Len(stdout) : WellFormedResponse(stdout[i])
    /\ (last.op = "stdio_turn" /\ last.out.called)
       => \/ last.out.handled.response = EmptyDict
          \/ WellFormedResponse(last.out.handled.response)
    /\ TurnDispatched
       => last.out.handled.response.v["id"] = last.args.request.v.v["id"]

\* C36's case: a request that was answered with a result is followed by one with
\* the id "a" that was dispatched and answered with an error
C36_Witness ==
    /\ Len(stdout) = 2
    /\ "result" \in DOMAIN stdout[1].v
    /\ TurnDispatched
    /\ last.args.request.v.v["id"] = Text("a")
    /\ stdout[2] = last.out.handled.response
    /\ "error" \in DOMAIN stdout[2].v
    /\ stdout[2].v["id"] = Text("a")


\* C37: the loop handles one line at a time. A step reads at most one line and
\* writes at most one line, the response of the turn for the line it read, after
\* the lines that are on stdout already, so that stdout never holds more lines than
\* were read and the responses are in the order of their requests.
C37_OneLineAtATime ==
    [][/\ lines_read' \in {lines_read, lines_read + 1}
       /\ Len(stdout') <= Len(stdout) + (lines_read' - lines_read)
       /\ Len(stdout') <= lines_read'
       /\ SubSeq(stdout', 1, Len(stdout)) = stdout
       /\ stdout' # stdout
          => /\ last'.op = "stdio_turn"
             /\ stdout' = Append(stdout, last'.out.written[1])]_vars

\* C37's case: two requests were read and answered, the one with id 1 before the
\* one with id "a", and their responses are on stdout in that order
C37_Witness ==
    /\ lines_read = 2
    /\ Len(stdout) = 2
    /\ stdout[1].v["id"] = Num(1)
    /\ "result" \in DOMAIN stdout[1].v
    /\ last.op = "stdio_turn"
    /\ last.out.written = <<stdout[2]>>
    /\ stdout[2].v["id"] = Text("a")


\* the step ends the loop
LoopEnds == pc = "loop" /\ pc' # "loop"

\* C39, as it is stated: the loop ends when stdin is at its end or the read is
\* cancelled, and for no other reason.
C39_LoopEndsOnlyOnEofOrCancelledRead ==
    [][LoopEnds
       => \/ last'.op = "eof"
          \/ last'.op = "cancelled" /\ last'.args.at = "readline"]_vars

\* C39: the loop ends when stdin is at its end or its task is cancelled, while it
\* reads or while it handles a request, and for no other reason: after the turn for
\* a line, be it malformed, an invalid request or a request whose handling fails,
\* the loop is about to read the next line.
C39_LoopEndsOnlyOnEofOrCancellation ==
    [][/\ LoopEnds => (pc' = "done" /\ last'.op \in {"eof", "cancelled"})
       /\ last'.op = "stdio_turn" => (pc = "loop" /\ pc' = "loop")]_vars

\* C39's case: a search that failed at the vector store was answered with an
\* internal error, and the next line was read and answered with a result
C39_Witness ==
    /\ lines_read = 2
    /\ pc = "loop"
    /\ Len(stdout) = 2
    /\ "error" \in DOMAIN stdout[1].v
    /\ stdout[1].v["error"].v.code = -32603
    /\ stdout[1].v["error"].v.data = <<"Qdrant unavailable">>
    /\ last.op = "stdio_turn"
    /\ last.out.written = <<stdout[2]>>
    /\ "result" \in DOMAIN stdout[2].v

-----------------------------------------------------------------------------
(* Properties of handle_stdio without cancellation, under SpecStdioLive *)

\* the line parses as a JSON object with an id that is not null
HasId(in) ==
    /\ in.request.t = "json"
    /\ in.request.v.t = "dict"
    /\ "id" \in DOMAIN in.request.v.v
    /\ in.request.v.v["id"] # None

\* the loop has read its n-th line, one with such an id, and has not finished its
\* turn for it
Reading(n) == pc = "handling" /\ lines_read = n /\ HasId(suspended.args)

\* the turn for the n-th line, one with such an id, is over and wrote exactly one
\* line to stdout
Answered(n) ==
    /\ pc = "loop"
    /\ lines_read = n
    /\ last.op = "stdio_turn"
    /\ HasId(last.args)
    /\ Len(last.out.written) = 1
    /\ stdout # <<>>
    /\ stdout[Len(stdout)] = last.out.written[1]

\* the request has the right version and lacks method or params, and its id is
\* neither a string nor an integer: handle_request answers it with the id null
IdIsDropped(in) ==
    /\ "jsonrpc" \in DOMAIN in.request.v.v
    /\ in.request.v.v["jsonrpc"] = Text("2.0")
    /\ ~({"method", "params"} \subseteq DOMAIN in.request.v.v)
    /\ in.request.v.v["id"].t \notin {"str", "int"}

-----------------------------------------------------------------------------
(* Properties of QueryProcessor.process_query, under SpecProcessor *)

\* C22: cleaning is idempotent: process_query applied to the query it returned
\* returns that query unchanged, for every query text, so that processing a query
\* again never grows it.
C22_CleaningIsIdempotent ==
    last.op = "process_again"
    => /\ last.out.outcome = "return"
       /\ last.out.value.v["query"] = last.args.query
       /\ Len(last.out.value.v["query"].v) <= Len(last.args.query.v)

\* C22's case: a query whose first cleaning removed a run of whitespace between two
\* words was cleaned a second time
C22_Witness ==
    /\ last.op = "process_again"
    /\ last.args.query = Str(<<"a", " ", "b">>)
    /\ last.out.outcome = "return"
====
